---- MODULE Spec2Model ----
(***************************************************************************)
(* FoldSync (main.py): one-way synchronisation of a replica directory with *)
(* a source directory.  The file system is a function from the absolute    *)
(* paths that exist to nodes; a path is a sequence of names.  copy_files   *)
(* is recursive, so the model keeps its call stack; every file-system      *)
(* operation of the code is one step.  No function of main.py catches an   *)
(* exception raised by a file-system call, so a raise unwinds the whole    *)
(* stack and ends the run.                                                 *)
(***************************************************************************)
EXTENDS Integers, Sequences, FiniteSets, TLC

\* ---------------------------------------------------------------- bounds
MaxDepth == 2      \* longest path below a root
MaxEntries == 2    \* most entries below one root in an initial tree
MaxRuns == 2       \* invocations of run_sync in one behaviour

Names == {"a", "b"}
FileData == {<<>>, <<0>>, <<1>>}
\* st_size of a directory depends on the file system
DirSizes == {0, 4096}
RepeatOptions == {"none", "valid", "invalid"}

SHA1_READ_BYTES == 65536
\* depth of Python frames after which the interpreter raises RecursionError
RecursionLimit == 3

SourceDir == <<"source">>
ReplicaDir == <<"replica">>

VARIABLES fs, readable, stack, pc, err, cron, log, run, fs0, prevOutcome

vars == <<fs, readable, stack, pc, err, cron, log, run, fs0, prevOutcome>>

\* ------------------------------------------------------ file-system nodes
DirNode == [kind |-> "dir", data |-> <<>>]
FileNode(d) == [kind |-> "file", data |-> d]
Nodes == {DirNode} \cup {FileNode(d) : d \in FileData}

parent(p) == SubSeq(p, 1, Len(p) - 1)
name(p) == p[Len(p)]
joinpath(p, n) == Append(p, n)
IsUnder(p, root) == Len(p) >= Len(root) /\ SubSeq(p, 1, Len(root)) = root

exists(f, p) == p \in DOMAIN f
is_dir(f, p) == exists(f, p) /\ f[p].kind = "dir"
iterdir(f, p) == {q \in DOMAIN f : Len(q) = Len(p) + 1 /\ parent(q) = p}
st_size(f, p, dsize) == IF f[p].kind = "file" THEN Len(f[p].data) ELSE dsize

mkdir(f, p) == [q \in DOMAIN f \cup {p} |-> IF q = p THEN DirNode ELSE f[q]]
unlink(f, p) == [q \in DOMAIN f \ {p} |-> f[q]]
write(f, p, d) == [q \in DOMAIN f \cup {p} |-> IF q = p THEN FileNode(d) ELSE f[q]]

\* ------------------------------------------------------------- hash_file
\* The digest is an injective fold over the bytes read, standing for SHA-1.
RECURSIVE sha1_update(_, _)
sha1_update(h, chunk) ==
    IF chunk = <<>> THEN h
    ELSE sha1_update(h * 3 + Head(chunk) + 1, Tail(chunk))

Min(a, b) == IF a < b THEN a ELSE b

read(data, offset, n) == SubSeq(data, offset + 1, Min(offset + n, Len(data)))

RECURSIVE hash_loop(_, _, _)
hash_loop(data, offset, h) ==
    LET chunk == read(data, offset, SHA1_READ_BYTES)
    IN IF chunk = <<>> THEN h
       ELSE hash_loop(data, offset + Len(chunk), sha1_update(h, chunk))

hash_file(f, file) == hash_loop(f[file].data, 0, 0)

\* --------------------------------------------------------- initial trees
RelPaths == UNION {[1..n -> Names] : n \in 1..MaxDepth}
PrefixClosed(P) == \A p \in P : Len(p) > 1 => parent(p) \in P
Shapes == {P \in SUBSET RelPaths : Cardinality(P) <= MaxEntries /\ PrefixClosed(P)}
Trees ==
    UNION {{t \in [P -> Nodes] : \A p \in P : Len(p) > 1 => t[parent(p)].kind = "dir"}
           : P \in Shapes}
Mount(root, t) ==
    [q \in {root} \cup {root \o p : p \in DOMAIN t} |->
        IF q = root THEN DirNode ELSE t[SubSeq(q, Len(root) + 1, Len(q))]]
NoFs == [q \in {} |-> DirNode]

Event(op, path, val) == [op |-> op, path |-> path, val |-> val]
NoErr == [type |-> "", path |-> <<>>]

Frame(source, destination) ==
    [source |-> source, destination |-> destination, pc |-> "exists",
     sub |-> "start", path_set |-> {}, todo |-> {}]

Init ==
    /\ \E s \in Trees, d \in Trees, srcState \in {"ok", "missing", "unreadable"},
          dstExists \in BOOLEAN :
          /\ dstExists \/ d = NoFs
          /\ srcState /= "ok" => s = NoFs
          /\ readable = (srcState = "ok")
          /\ fs = (IF srcState = "missing" THEN NoFs ELSE Mount(SourceDir, s))
                  @@ (IF dstExists THEN Mount(ReplicaDir, d) ELSE NoFs)
    /\ stack = <<>>
    /\ pc = "init"
    /\ err = NoErr
    /\ cron = FALSE
    /\ log = <<>>
    /\ run = 0
    /\ fs0 = fs
    /\ prevOutcome = "none"

\* mutant of validate: the replica directory is created before the source
\* is looked at
validate_replica_first(f, rd, source_dir, replica_dir) ==
    LET g == IF exists(f, replica_dir) THEN f ELSE mkdir(f, replica_dir)
    IN [exit |-> ~(exists(f, source_dir) /\ rd), fs |-> g, events |-> <<>>]

\* ------------------------------------------------- validate, setup_repeat
\* validate: SystemExit(1) when the source is not accessible or does not
\* exist, otherwise the replica directory is created when it is missing.
validate(f, rd, source_dir, replica_dir) ==
    IF ~(exists(f, source_dir) /\ rd)
    THEN [exit |-> TRUE, fs |-> f, events |-> <<>>]
    ELSE IF ~exists(f, source_dir)
    THEN [exit |-> TRUE, fs |-> f, events |-> <<>>]
    ELSE IF ~exists(f, replica_dir)
    THEN [exit |-> FALSE, fs |-> mkdir(f, replica_dir),
          events |-> <<Event("mkdir", replica_dir, 0)>>]
    ELSE [exit |-> FALSE, fs |-> f, events |-> <<>>]

\* setup_repeat_posix: the cron job is written only for a valid interval.
setup_repeat(repeat) == repeat = "valid"

\* mutant of NextPhase: remove_unwanted is called after the for loop
NextPhase_copy_first(phase) ==
    CASE phase = "exists" -> "for"
      [] phase = "for" -> "remove_unwanted"
      [] phase = "remove_unwanted" -> "return"

\* ----------------------------------------------------------- copy_files
\* The statements of copy_files in order: the exists/mkdir test, the call of
\* remove_unwanted, the for loop over source.iterdir(), the return.
NextPhase(phase) ==
    CASE phase = "exists" -> "remove_unwanted"
      [] phase = "remove_unwanted" -> "for"
      [] phase = "for" -> "return"

Top == stack[Len(stack)]
SetTop(fr) == [stack EXCEPT ![Len(stack)] = fr]
Pop == SubSeq(stack, 1, Len(stack) - 1)

Running == pc = "running" /\ stack /= <<>>

Raise(type, path) ==
    /\ pc' = "raised"
    /\ stack' = <<>>
    /\ err' = [type |-> type, path |-> path]

\* the frame has finished its current statement
Finish ==
    IF NextPhase(Top.pc) = "return"
    THEN /\ stack' = Pop
         /\ pc' = IF Len(stack) = 1 THEN "returned" ELSE "running"
    ELSE /\ stack' = SetTop([Top EXCEPT !.pc = NextPhase(Top.pc), !.sub = "start"])
         /\ pc' = pc

ListError(f, p) == IF exists(f, p) THEN "NotADirectoryError" ELSE "FileNotFoundError"

\* run_sync: setup_logging, validate, setup_repeat, then copy_files.
\* The scheduler's command line has no --repeat option.  The model follows
\* the invocations that come after a completed run.
RunSync(repeat) ==
    /\ pc \in {"init", "returned"}
    /\ run < MaxRuns
    /\ run > 0 => repeat = "none"
    /\ run' = run + 1
    /\ prevOutcome' = pc
    /\ fs0' = fs
    /\ err' = NoErr
    /\ LET v == validate(fs, readable, SourceDir, ReplicaDir)
       IN IF v.exit
          THEN /\ pc' = "exit1"
               /\ fs' = v.fs
               /\ stack' = <<>>
               /\ log' = v.events
               /\ UNCHANGED cron
          ELSE /\ pc' = "running"
               /\ fs' = v.fs
               /\ cron' = (cron \/ setup_repeat(repeat))
               /\ stack' = <<Frame(SourceDir, ReplicaDir)>>
               /\ log' = v.events \o <<Event("call", ReplicaDir, 0)>>
    /\ UNCHANGED readable

\* copy_files: if not destination.exists(): Path.mkdir(destination)
Exists ==
    /\ Running
    /\ Top.pc = "exists"
    /\ IF exists(fs, Top.destination)
       THEN UNCHANGED <<fs, log>>
       ELSE /\ fs' = mkdir(fs, Top.destination)
            /\ log' = Append(log, Event("mkdir", Top.destination, 0))
    /\ Finish
    /\ UNCHANGED <<readable, err, cron, run, fs0, prevOutcome>>

\* mutant of unwanted: the source names are not taken out of path_set
unwanted_keep_all(f, source, destination) == iterdir(f, destination)

\* mutant of unwanted: source and destination are swapped
unwanted_swapped(f, source, destination) ==
    {file \in iterdir(f, source) :
        ~\E s \in iterdir(f, destination) : joinpath(source, name(s)) = file}

\* remove_unwanted: the destination entries whose name no source entry has
unwanted(f, source, destination) ==
    {file \in iterdir(f, destination) :
        ~\E s \in iterdir(f, source) : joinpath(destination, name(s)) = file}

BeginRemoveUnwanted ==
    /\ Running
    /\ Top.pc = "remove_unwanted" /\ Top.sub = "start"
    /\ IF ~is_dir(fs, Top.destination)
       THEN Raise(ListError(fs, Top.destination), Top.destination)
       ELSE IF ~is_dir(fs, Top.source)
       THEN Raise(ListError(fs, Top.source), Top.source)
       ELSE /\ stack' = SetTop([Top EXCEPT !.sub = "iter",
                   !.path_set = unwanted(fs, Top.source, Top.destination)])
            /\ UNCHANGED <<pc, err>>
    /\ UNCHANGED <<fs, readable, cron, log, run, fs0, prevOutcome>>

\* remove_directory calls itself on the same path while it is a directory;
\* the interpreter ends the recursion with RecursionError.
RECURSIVE remove_directory(_, _, _)
remove_directory(f, file, depth) ==
    IF depth = 0
    THEN [err |-> "RecursionError", fs |-> f, events |-> <<>>]
    ELSE IF is_dir(f, file)
    THEN remove_directory(f, file, depth - 1)
    ELSE [err |-> "", fs |-> unlink(f, file), events |-> <<Event("unlink", file, 0)>>]

RemoveUnwantedDir(file) ==
    /\ Running
    /\ Top.pc = "remove_unwanted" /\ Top.sub = "iter"
    /\ file \in Top.path_set
    /\ is_dir(fs, file)
    /\ LET r == remove_directory(fs, file, RecursionLimit)
       IN /\ fs' = r.fs
          /\ log' = log \o r.events
          /\ IF r.err /= ""
             THEN Raise(r.err, file)
             ELSE /\ stack' = SetTop([Top EXCEPT !.path_set = @ \ {file}])
                  /\ UNCHANGED <<pc, err>>
    /\ UNCHANGED <<readable, cron, run, fs0, prevOutcome>>

RemoveUnwantedFile(file) ==
    /\ Running
    /\ Top.pc = "remove_unwanted" /\ Top.sub = "iter"
    /\ file \in Top.path_set
    /\ ~is_dir(fs, file)
    /\ fs' = unlink(fs, file)
    /\ log' = Append(log, Event("unlink", file, 0))
    /\ stack' = SetTop([Top EXCEPT !.path_set = @ \ {file}])
    /\ UNCHANGED <<readable, pc, err, cron, run, fs0, prevOutcome>>

EndRemoveUnwanted ==
    /\ Running
    /\ Top.pc = "remove_unwanted" /\ Top.sub = "iter"
    /\ Top.path_set = {}
    /\ Finish
    /\ UNCHANGED <<fs, readable, err, cron, log, run, fs0, prevOutcome>>

\* for file in source.iterdir():
BeginFor ==
    /\ Running
    /\ Top.pc = "for" /\ Top.sub = "start"
    /\ IF ~is_dir(fs, Top.source)
       THEN Raise(ListError(fs, Top.source), Top.source)
       ELSE /\ stack' = SetTop([Top EXCEPT !.sub = "iter",
                                           !.todo = iterdir(fs, Top.source)])
            /\ UNCHANGED <<pc, err>>
    /\ UNCHANGED <<fs, readable, cron, log, run, fs0, prevOutcome>>

\* if file.is_dir(): copy_files(file, destination.joinpath(file.name))
ForDir(file) ==
    /\ Running
    /\ Top.pc = "for" /\ Top.sub = "iter"
    /\ file \in Top.todo
    /\ is_dir(fs, file)
    /\ stack' = Append(SetTop([Top EXCEPT !.todo = @ \ {file}]),
                       Frame(file, joinpath(Top.destination, name(file))))
    /\ log' = Append(log, Event("call", joinpath(Top.destination, name(file)), 0))
    /\ UNCHANGED <<fs, readable, pc, err, cron, run, fs0, prevOutcome>>

EndFor ==
    /\ Running
    /\ Top.pc = "for" /\ Top.sub = "iter"
    /\ Top.todo = {}
    /\ Finish
    /\ UNCHANGED <<fs, readable, err, cron, log, run, fs0, prevOutcome>>

\* shutil.copy2(src, dst) with dst a directory: the target is dst/name(src)
copy2(f, src, dst) ==
    LET target == joinpath(dst, name(src))
    IN IF is_dir(f, target)
       THEN [err |-> "IsADirectoryError", fs |-> f]
       ELSE [err |-> "", fs |-> write(f, target, f[src].data)]

\* copy_file logs the copy, then copies source/file.name into destination
copy_file(f, source, destination, file) ==
    LET r == copy2(f, joinpath(source, name(file)), destination)
    IN [err |-> r.err, fs |-> r.fs,
        events |-> <<Event("copy", joinpath(destination, name(file)),
                           Len(f[file].data))>>]

\* mutant of compare: the fingerprint test is inverted
compare_equal_hash(f, file, dst, dsize) ==
    IF ~exists(f, dst)
    THEN [events |-> <<>>, copy |-> TRUE, err |-> ""]
    ELSE LET s1 == st_size(f, file, dsize)
             s2 == st_size(f, dst, dsize)
             stats == <<Event("stat", file, s1), Event("stat", dst, s2)>>
         IN IF s1 /= s2
            THEN [events |-> stats, copy |-> TRUE, err |-> ""]
            ELSE IF is_dir(f, dst)
            THEN [events |-> Append(stats, Event("hash", file, hash_file(f, file))),
                  copy |-> FALSE, err |-> "IsADirectoryError"]
            ELSE LET h1 == hash_file(f, file)
                     h2 == hash_file(f, dst)
                 IN [events |-> stats \o <<Event("hash", file, h1), Event("hash", dst, h2)>>,
                     copy |-> (h1 = h2), err |-> ""]

\* mutant of compare: the length test is left out, fingerprints always computed
compare_no_size(f, file, dst, dsize) ==
    IF ~exists(f, dst)
    THEN [events |-> <<>>, copy |-> TRUE, err |-> ""]
    ELSE IF is_dir(f, dst)
    THEN [events |-> <<Event("hash", file, hash_file(f, file))>>,
          copy |-> FALSE, err |-> "IsADirectoryError"]
    ELSE LET h1 == hash_file(f, file)
             h2 == hash_file(f, dst)
         IN [events |-> <<Event("hash", file, h1), Event("hash", dst, h2)>>,
             copy |-> ~(h1 = h2), err |-> ""]

\* The tests of the for loop's else branch: which stat and hash_file calls
\* are made for a source file, and whether copy_file is called.
compare(f, file, dst, dsize) ==
    IF ~exists(f, dst)
    THEN [events |-> <<>>, copy |-> TRUE, err |-> ""]
    ELSE LET s1 == st_size(f, file, dsize)
             s2 == st_size(f, dst, dsize)
             stats == <<Event("stat", file, s1), Event("stat", dst, s2)>>
         IN IF s1 /= s2
            THEN [events |-> stats, copy |-> TRUE, err |-> ""]
            ELSE IF is_dir(f, dst)
            THEN [events |-> Append(stats, Event("hash", file, hash_file(f, file))),
                  copy |-> FALSE, err |-> "IsADirectoryError"]
            ELSE LET h1 == hash_file(f, file)
                     h2 == hash_file(f, dst)
                 IN [events |-> stats \o <<Event("hash", file, h1), Event("hash", dst, h2)>>,
                     copy |-> ~(h1 = h2), err |-> ""]

ForFile(file) ==
    /\ Running
    /\ Top.pc = "for" /\ Top.sub = "iter"
    /\ file \in Top.todo
    /\ ~is_dir(fs, file)
    /\ \E dsize \in DirSizes :
         LET dst == joinpath(Top.destination, name(file))
             c == compare(fs, file, dst, dsize)
             r == copy_file(fs, Top.source, Top.destination, file)
         IN IF c.err /= ""
            THEN /\ log' = log \o c.events
                 /\ Raise(c.err, dst)
                 /\ UNCHANGED fs
            ELSE IF ~c.copy
            THEN /\ log' = log \o c.events
                 /\ stack' = SetTop([Top EXCEPT !.todo = @ \ {file}])
                 /\ UNCHANGED <<fs, pc, err>>
            ELSE /\ log' = log \o c.events \o r.events
                 /\ fs' = r.fs
                 /\ IF r.err /= ""
                    THEN Raise(r.err, dst)
                    ELSE /\ stack' = SetTop([Top EXCEPT !.todo = @ \ {file}])
                         /\ UNCHANGED <<pc, err>>
    /\ UNCHANGED <<readable, cron, run, fs0, prevOutcome>>

\* ------------------------------------------- failures of file-system calls
\* file.unlink() raises (permission race)
UnlinkFails(file) ==
    /\ Running
    /\ Top.pc = "remove_unwanted" /\ Top.sub = "iter"
    /\ file \in Top.path_set
    /\ ~is_dir(fs, file)
    /\ log' = Append(log, Event("unlink", file, 0))
    /\ Raise("OSError", file)
    /\ UNCHANGED <<fs, readable, cron, run, fs0, prevOutcome>>

\* shutil.copy2 raises before writing, or after truncating the target
CopyFails(file) ==
    /\ Running
    /\ Top.pc = "for" /\ Top.sub = "iter"
    /\ file \in Top.todo
    /\ ~is_dir(fs, file)
    /\ \E dsize \in DirSizes, truncated \in BOOLEAN :
         LET dst == joinpath(Top.destination, name(file))
             c == compare(fs, file, dst, dsize)
             r == copy_file(fs, Top.source, Top.destination, file)
         IN /\ c.err = "" /\ c.copy /\ r.err = ""
            /\ log' = log \o c.events \o r.events
            /\ fs' = IF truncated THEN write(fs, dst, <<>>) ELSE fs
            /\ Raise("OSError", dst)
    /\ UNCHANGED <<readable, cron, run, fs0, prevOutcome>>

\* hash_file raises (open or read fails)
HashFails(file) ==
    /\ Running
    /\ Top.pc = "for" /\ Top.sub = "iter"
    /\ file \in Top.todo
    /\ ~is_dir(fs, file)
    /\ \E dsize \in DirSizes :
         LET dst == joinpath(Top.destination, name(file))
             c == compare(fs, file, dst, dsize)
         IN /\ \E i \in DOMAIN c.events : c.events[i].op = "hash"
            /\ log' = log \o SubSeq(c.events, 1, 2)
            /\ Raise("OSError", dst)
    /\ UNCHANGED <<fs, readable, cron, run, fs0, prevOutcome>>

\* ------------------------------------------------------- specifications
Next ==
    \/ \E repeat \in RepeatOptions : RunSync(repeat)
    \/ Exists
    \/ BeginRemoveUnwanted
    \/ \E file \in DOMAIN fs : RemoveUnwantedDir(file)
    \/ \E file \in DOMAIN fs : RemoveUnwantedFile(file)
    \/ EndRemoveUnwanted
    \/ BeginFor
    \/ \E file \in DOMAIN fs : ForDir(file)
    \/ \E file \in DOMAIN fs : ForFile(file)
    \/ EndFor

Spec == Init /\ [][Next]_vars

NextFault ==
    \/ Next
    \/ \E file \in DOMAIN fs : UnlinkFails(file)
    \/ \E file \in DOMAIN fs : CopyFails(file)
    \/ \E file \in DOMAIN fs : HashFails(file)

SpecFault == Init /\ [][NextFault]_vars

\* ------------------------------------------------- vocabulary of the claims
Rel(p, root) == SubSeq(p, Len(root) + 1, Len(p))
SrcOf(d) == SourceDir \o Rel(d, ReplicaDir)
DstOf(p) == ReplicaDir \o Rel(p, SourceDir)
SubTree(f, root) ==
    [r \in {Rel(p, root) : p \in {x \in DOMAIN f : IsUnder(x, root)}} |-> f[root \o r]]
Ended == pc \in {"returned", "raised"}
Idx(op, path) == {i \in DOMAIN log : log[i].op = op /\ log[i].path = path}
Ops(ops) == {i \in DOMAIN log : log[i].op \in ops}
Level(i) == parent(log[i].path)
SourceFiles(f) == {p \in DOMAIN f : IsUnder(p, SourceDir) /\ f[p].kind = "file"}
SameFile(f, p, q) ==
    /\ exists(f, q) /\ f[q].kind = "file"
    /\ Len(f[p].data) = Len(f[q].data)
    /\ hash_file(f, p) = hash_file(f, q)

\* C1 (Convergence): once a run of copy_files has ended, the replica tree
\* equals the source tree at every level: same names, same kinds, same bytes.
C1_Convergence ==
    Ended => SubTree(fs, ReplicaDir) = SubTree(fs, SourceDir)

\* C2 (Idempotence): a run that follows a completed run on an unchanged source
\* calls neither copy_file nor unlink and leaves the replica as it found it.
C2_Idempotence ==
    (run >= 2 /\ prevOutcome = "returned") =>
        /\ Ops({"copy", "unlink", "mkdir"}) = {}
        /\ fs = fs0

C2_Witness ==
    /\ run = 2 /\ prevOutcome = "returned" /\ pc = "returned"
    /\ Ops({"hash"}) /= {}
    /\ \E p \in DOMAIN fs : is_dir(fs, p) /\ Len(p) = 2 /\ IsUnder(p, SourceDir)

\* C3 (Deletion completeness): once the run has ended, at every level
\* copy_files was called on, no replica entry is left whose name the source
\* level does not have.
C3_DeletionCompleteness ==
    Ended =>
        \A i \in Ops({"call"}) :
            \A q \in iterdir(fs, log[i].path) :
                exists(fs, joinpath(SrcOf(log[i].path), name(q)))

\* C4 (Kind mismatch): once the run has ended, a replica file x that
\* copy_files was called on because the source has a directory x has been
\* replaced by a directory that mirrors the source directory.
C4_KindMismatch ==
    Ended =>
        \A i \in Ops({"call"}) :
            LET d == log[i].path
            IN (exists(fs0, d) /\ fs0[d].kind = "file" /\ is_dir(fs0, SrcOf(d))) =>
                   /\ is_dir(fs, d)
                   /\ SubTree(fs, d) = SubTree(fs, SrcOf(d))

\* C5 (Minimal work): a source file whose replica file of the same name has
\* the same length and the same fingerprint at the start of the run is never
\* copied, never unlinked and keeps its bytes.
C5_MinimalWork ==
    \A p \in SourceFiles(fs0) :
        SameFile(fs0, p, DstOf(p)) =>
            /\ Idx("copy", DstOf(p)) = {}
            /\ Idx("unlink", DstOf(p)) = {}
            /\ exists(fs, DstOf(p)) /\ fs[DstOf(p)] = fs0[DstOf(p)]

C5_Witness ==
    /\ pc = "returned" /\ run = 1
    /\ \E p \in SourceFiles(fs0) :
          /\ SameFile(fs0, p, DstOf(p))
          /\ Idx("hash", DstOf(p)) /= {}
    /\ Ops({"copy"}) /= {}

\* C6 (Validation failure): when the source is missing or unreadable, run_sync
\* exits with status 1 and has created no replica directory, copied or deleted
\* nothing and installed no scheduler job.
C6_ValidationFatal ==
    (run >= 1 /\ (~exists(fs0, SourceDir) \/ ~readable)) =>
        /\ pc = "exit1"
        /\ fs = fs0
        /\ ~cron
        /\ log = <<>>
        /\ stack = <<>>

C6_Witness ==
    /\ pc = "exit1" /\ run = 1
    /\ exists(fs, SourceDir) /\ ~readable
    /\ ~exists(fs, ReplicaDir)

\* C7 (Partial failure): once a run in which one entry's copy, delete or hash
\* failed has ended, every sibling of that entry that cannot fail itself is
\* converged: source files of the level are mirrored, stale files are gone.
C7_PartialFailure ==
    (Ended /\ err.type = "OSError") =>
        LET d == parent(err.path)
            s == SrcOf(d)
        IN /\ \A x \in iterdir(fs, s) :
                 (name(x) /= name(err.path) /\ fs[x].kind = "file"
                    /\ ~is_dir(fs0, joinpath(d, name(x)))) =>
                     /\ exists(fs, joinpath(d, name(x)))
                     /\ fs[joinpath(d, name(x))] = fs[x]
           /\ \A y \in iterdir(fs, d) :
                 (name(y) /= name(err.path) /\ fs[y].kind = "file") =>
                     exists(fs, joinpath(s, name(y)))

\* C8 (Phase ordering, as claimed): at one level every unlink precedes every
\* copy and every recursive call, and every copy precedes every recursive call.
C8_PhaseOrdering ==
    \A i, j \in DOMAIN log :
        (i < j /\ Level(i) = Level(j)) =>
            /\ ~(log[i].op \in {"copy", "call"} /\ log[j].op = "unlink")
            /\ ~(log[i].op = "call" /\ log[j].op = "copy")

\* C8 (amended): at one level every unlink precedes every copy and every
\* recursive call of that level; copies and recursive calls follow in the
\* order of the listing.
C8_RemoveFirst ==
    \A i, j \in DOMAIN log :
        (i < j /\ Level(i) = Level(j)) =>
            ~(log[i].op \in {"copy", "call"} /\ log[j].op = "unlink")

C8_Witness ==
    /\ pc = "returned"
    /\ \E i, j \in DOMAIN log :
          /\ i < j
          /\ log[i].op = "unlink" /\ log[j].op = "copy"
          /\ Level(i) = Level(j)
    /\ \E k \in DOMAIN log : log[k].op = "call" /\ Len(log[k].path) > 1

\* C9 (File comparison rule): lengths are compared before any fingerprint;
\* fingerprints are computed only when the name exists on both sides with
\* equal lengths; copy_file is called exactly when the replica name is
\* missing (then without any comparison), the lengths differ (then without
\* any fingerprint), or both fingerprints were computed and differ.
C9_ComparisonRule ==
    \A p \in SourceFiles(fs0) :
        LET q == DstOf(p)
            stats == Idx("stat", p) \cup Idx("stat", q)
            hashes == Idx("hash", p) \cup Idx("hash", q)
            copied == Idx("copy", q) /= {}
            sizesDiffer == \E i \in Idx("stat", p), j \in Idx("stat", q) :
                               log[i].val /= log[j].val
            hashesDiffer == \E i \in Idx("hash", p), j \in Idx("hash", q) :
                               log[i].val /= log[j].val
        IN /\ ~exists(fs0, q) => (stats = {} /\ hashes = {})
           /\ stats /= {} => (Idx("stat", p) /= {} /\ Idx("stat", q) /= {})
           /\ \A i \in Idx("stat", p) : log[i].val = Len(fs0[p].data)
           /\ \A j \in Idx("stat", q) :
                 fs0[q].kind = "file" => log[j].val = Len(fs0[q].data)
           /\ hashes /= {} => (stats /= {} /\ ~sizesDiffer)
           /\ \A h \in hashes : \A i \in stats : i < h
           /\ \A h \in hashes : log[h].val = hash_file(fs0, log[h].path)
           /\ sizesDiffer => copied
           /\ (Idx("hash", p) /= {} /\ Idx("hash", q) /= {}) =>
                  (copied <=> hashesDiffer)
           /\ copied => (~exists(fs0, q) \/ sizesDiffer \/ hashesDiffer)
           /\ (pc = "returned" /\ ~exists(fs0, q)) => copied
           /\ (pc = "returned" /\ exists(fs0, q)) => stats /= {}

C9_Witness ==
    /\ pc = "returned" /\ run = 1
    /\ \E p, r \in SourceFiles(fs0) :
          /\ Idx("hash", p) /= {} /\ Idx("copy", DstOf(p)) /= {}
          /\ Idx("stat", r) /= {} /\ Idx("hash", r) = {} /\ Idx("copy", DstOf(r)) /= {}

====
